---- MODULE Spec2Model ----
(***************************************************************************)
(* Unbuffered terminal mode of the ssd1306 driver (src/mode/terminal.rs)   *)
(* and the display size enumeration (src/displaysize.rs).                  *)
(*                                                                         *)
(* The renderer owns one DisplayProperties handle.  Every operation is a   *)
(* synchronous handler; one action of the model is one whole handler.      *)
(* The calls a handler makes on DisplayProperties are recorded, in order,  *)
(* in `calls`, together with the outcome the transport gave each of them.  *)
(* Characters are Unicode scalar values (integers), strings are sequences  *)
(* of characters, bitmaps are 8-tuples of bytes.                           *)
(***************************************************************************)
EXTENDS Integers, Sequences, FiniteSets, TLC

VARIABLES size, window, cursor, lastOp, lastArg, calls, events, result, bitmap, ops

vars == <<size, window, cursor, lastOp, lastArg, calls, events, result, bitmap, ops>>

(* ---------------------------- bounds ----------------------------------- *)

\* longest string handed to write_str
MaxLen == 2

\* number of operations called on one renderer
MaxOps == 2

(* ------------------------- displaysize.rs ------------------------------ *)

\* the declared variants of enum DisplaySize
DisplaySize == {"Display128x64", "Display128x32", "Display96x16", "Quirk128x32"}

dimensions(self) ==
    CASE self = "Display128x64" -> <<128, 64>>
      [] self = "Display128x32" -> <<128, 32>>
      [] self = "Quirk128x32"   -> <<128, 32>>
      [] self = "Display96x16"  -> <<96, 16>>

(* --------------------------- glyph table ------------------------------- *)

\* to_bitmap with a default arm that returns the glyph of '!'
to_bitmap_default(input) ==
    CASE input = 65 -> <<126, 17, 17, 17, 126, 0, 0, 0>>
      [] OTHER -> <<0, 0, 95, 0, 0, 0, 0, 0>>

to_bitmap(input) ==
    CASE input = 33 -> <<0, 0, 95, 0, 0, 0, 0, 0>>
      [] input = 34 -> <<0, 7, 0, 7, 0, 0, 0, 0>>
      [] input = 35 -> <<20, 127, 20, 127, 20, 0, 0, 0>>
      [] input = 36 -> <<36, 42, 127, 42, 18, 0, 0, 0>>
      [] input = 37 -> <<35, 19, 8, 100, 98, 0, 0, 0>>
      [] input = 38 -> <<54, 73, 85, 34, 80, 0, 0, 0>>
      [] input = 39 -> <<0, 5, 3, 0, 0, 0, 0, 0>>
      [] input = 40 -> <<0, 28, 34, 65, 0, 0, 0, 0>>
      [] input = 41 -> <<0, 65, 34, 28, 0, 0, 0, 0>>
      [] input = 42 -> <<8, 42, 28, 42, 8, 0, 0, 0>>
      [] input = 43 -> <<8, 8, 62, 8, 8, 0, 0, 0>>
      [] input = 44 -> <<0, 80, 48, 0, 0, 0, 0, 0>>
      [] input = 45 -> <<0, 24, 24, 24, 24, 24, 0, 0>>
      [] input = 46 -> <<0, 96, 96, 0, 0, 0, 0, 0>>
      [] input = 47 -> <<32, 16, 8, 4, 2, 0, 0, 0>>
      [] input = 48 -> <<28, 62, 97, 65, 67, 62, 28, 0>>
      [] input = 49 -> <<64, 66, 127, 127, 64, 64, 0, 0>>
      [] input = 50 -> <<98, 115, 121, 89, 93, 79, 70, 0>>
      [] input = 51 -> <<32, 97, 73, 77, 79, 123, 49, 0>>
      [] input = 52 -> <<24, 28, 22, 19, 127, 127, 16, 0>>
      [] input = 53 -> <<39, 103, 69, 69, 69, 125, 56, 0>>
      [] input = 54 -> <<60, 126, 75, 73, 73, 121, 48, 0>>
      [] input = 55 -> <<3, 3, 113, 121, 13, 7, 3, 0>>
      [] input = 56 -> <<54, 127, 73, 73, 73, 127, 54, 0>>
      [] input = 57 -> <<6, 79, 73, 73, 105, 63, 30, 0>>
      [] input = 58 -> <<0, 54, 54, 0, 0, 0, 0, 0>>
      [] input = 59 -> <<0, 86, 54, 0, 0, 0, 0, 0>>
      [] input = 60 -> <<0, 8, 20, 34, 65, 0, 0, 0>>
      [] input = 61 -> <<20, 20, 20, 20, 20, 0, 0, 0>>
      [] input = 62 -> <<65, 34, 20, 8, 0, 0, 0, 0>>
      [] input = 63 -> <<2, 1, 81, 9, 6, 0, 0, 0>>
      [] input = 64 -> <<50, 73, 121, 65, 62, 0, 0, 0>>
      [] input = 65 -> <<126, 17, 17, 17, 126, 0, 0, 0>>
      [] input = 66 -> <<127, 73, 73, 73, 54, 0, 0, 0>>
      [] input = 67 -> <<62, 65, 65, 65, 34, 0, 0, 0>>
      [] input = 68 -> <<127, 127, 65, 65, 99, 62, 28, 0>>
      [] input = 69 -> <<127, 73, 73, 73, 65, 0, 0, 0>>
      [] input = 70 -> <<127, 9, 9, 1, 1, 0, 0, 0>>
      [] input = 71 -> <<62, 65, 65, 81, 50, 0, 0, 0>>
      [] input = 72 -> <<127, 8, 8, 8, 127, 0, 0, 0>>
      [] input = 73 -> <<0, 65, 127, 65, 0, 0, 0, 0>>
      [] input = 74 -> <<32, 64, 65, 63, 1, 0, 0, 0>>
      [] input = 75 -> <<127, 8, 20, 34, 65, 0, 0, 0>>
      [] input = 76 -> <<127, 127, 64, 64, 64, 64, 0, 0>>
      [] input = 77 -> <<127, 2, 4, 2, 127, 0, 0, 0>>
      [] input = 78 -> <<127, 4, 8, 16, 127, 0, 0, 0>>
      [] input = 79 -> <<62, 127, 65, 65, 65, 127, 62, 0>>
      [] input = 80 -> <<127, 9, 9, 9, 6, 0, 0, 0>>
      [] input = 81 -> <<62, 65, 81, 33, 94, 0, 0, 0>>
      [] input = 82 -> <<127, 127, 17, 49, 121, 111, 78, 0>>
      [] input = 83 -> <<70, 73, 73, 73, 49, 0, 0, 0>>
      [] input = 84 -> <<1, 1, 127, 1, 1, 0, 0, 0>>
      [] input = 85 -> <<63, 64, 64, 64, 63, 0, 0, 0>>
      [] input = 86 -> <<31, 32, 64, 32, 31, 0, 0, 0>>
      [] input = 87 -> <<127, 127, 56, 28, 56, 127, 127, 0>>
      [] input = 88 -> <<99, 20, 8, 20, 99, 0, 0, 0>>
      [] input = 89 -> <<3, 4, 120, 4, 3, 0, 0, 0>>
      [] input = 90 -> <<97, 81, 73, 69, 67, 0, 0, 0>>
      [] input = 91 -> <<0, 0, 127, 65, 65, 0, 0, 0>>
      [] input = 92 -> <<2, 4, 8, 16, 32, 0, 0, 0>>
      [] input = 93 -> <<65, 65, 127, 0, 0, 0, 0, 0>>
      [] input = 94 -> <<4, 2, 1, 2, 4, 0, 0, 0>>
      [] input = 95 -> <<64, 64, 64, 64, 64, 0, 0, 0>>
      [] input = 96 -> <<0, 1, 2, 4, 0, 0, 0, 0>>
      [] input = 97 -> <<32, 84, 84, 84, 120, 0, 0, 0>>
      [] input = 98 -> <<127, 72, 68, 68, 56, 0, 0, 0>>
      [] input = 99 -> <<56, 68, 68, 68, 32, 0, 0, 0>>
      [] input = 100 -> <<56, 68, 68, 72, 127, 0, 0, 0>>
      [] input = 101 -> <<56, 84, 84, 84, 24, 0, 0, 0>>
      [] input = 102 -> <<8, 126, 9, 1, 2, 0, 0, 0>>
      [] input = 103 -> <<8, 20, 84, 84, 60, 0, 0, 0>>
      [] input = 104 -> <<127, 8, 4, 4, 120, 0, 0, 0>>
      [] input = 105 -> <<0, 68, 125, 64, 0, 0, 0, 0>>
      [] input = 106 -> <<32, 64, 68, 61, 0, 0, 0, 0>>
      [] input = 107 -> <<0, 127, 16, 40, 68, 0, 0, 0>>
      [] input = 108 -> <<0, 65, 127, 64, 0, 0, 0, 0>>
      [] input = 109 -> <<124, 4, 24, 4, 120, 0, 0, 0>>
      [] input = 110 -> <<124, 8, 4, 4, 120, 0, 0, 0>>
      [] input = 111 -> <<56, 68, 68, 68, 56, 0, 0, 0>>
      [] input = 112 -> <<124, 20, 20, 20, 8, 0, 0, 0>>
      [] input = 113 -> <<8, 20, 20, 24, 124, 0, 0, 0>>
      [] input = 114 -> <<124, 8, 4, 4, 8, 0, 0, 0>>
      [] input = 115 -> <<72, 84, 84, 84, 32, 0, 0, 0>>
      [] input = 116 -> <<4, 63, 68, 64, 32, 0, 0, 0>>
      [] input = 117 -> <<60, 64, 64, 32, 124, 0, 0, 0>>
      [] input = 118 -> <<28, 32, 64, 32, 28, 0, 0, 0>>
      [] input = 119 -> <<60, 64, 48, 64, 60, 0, 0, 0>>
      [] input = 120 -> <<0, 68, 40, 16, 40, 68, 0, 0>>
      [] input = 121 -> <<12, 80, 80, 80, 60, 0, 0, 0>>
      [] input = 122 -> <<68, 100, 84, 76, 68, 0, 0, 0>>
      [] input = 123 -> <<0, 8, 54, 65, 0, 0, 0, 0>>
      [] input = 124 -> <<0, 0, 127, 0, 0, 0, 0, 0>>
      [] input = 125 -> <<0, 65, 54, 8, 0, 0, 0, 0>>
      [] OTHER -> <<0, 0, 0, 0, 0, 0, 0, 0>>

\* characters the model feeds to to_bitmap: all of ASCII, and scalar values
\* beyond it (U+0080, U+00E9, U+20AC, U+FFFD, U+10FFFF)
Chars == (0..127) \cup {128, 233, 8364, 65533, 1114111}

\* characters the model prints: '5', 'A', ' ', '~', U+00E9
PrintChars == {53, 65, 32, 126, 233}

\* characters of the strings the model writes: 'a', 'b'
StrChars == {97, 98}

Strings == UNION {[1..n -> StrChars] : n \in 0..MaxLen}

\* orientation values handed to set_rotation
DisplayRotation == {"Rotate0", "Rotate90", "Rotate180", "Rotate270"}

(* ------------------ DisplayProperties (collaborator) ------------------- *)

\* one call on DisplayProperties: its name, its argument, the outcome the
\* transport gave it, and for a draw the glyph cell the bytes went to
Call(op, arg, ok, at) == [op |-> op, arg |-> arg, ok |-> ok, at |-> at]

\* number of 8x8 glyph cells of the addressing window (the whole panel while
\* no window has been set)
Cells(win, sz) ==
    LET d == IF win = <<>> THEN dimensions(sz) ELSE win[2]
    IN  (d[1] \div 8) * (d[2] \div 8)

\* index of the last successful set_draw_area among the calls cs, 0 if none
LastArea(cs) ==
    LET set == {i \in 1..Len(cs) : cs[i].op = "set_draw_area" /\ cs[i].ok}
    IN  IF set = {} THEN 0 ELSE CHOOSE i \in set : \A j \in set : j <= i

\* the window after the calls cs: a successful set_draw_area replaces it
WindowAfter(win, cs) ==
    LET from == LastArea(cs)
    IN  IF from = 0 THEN win ELSE cs[from].arg

\* the cursor after the calls cs: a successful set_draw_area puts it on the
\* window origin, every successful draw advances it one cell, with wrap
CursorAfter(win, cur, cs, sz) ==
    LET from  == LastArea(cs)
        start == IF from = 0 THEN cur ELSE 0
        drawn == Cardinality({i \in (from + 1)..Len(cs) :
                                 cs[i].op = "draw" /\ cs[i].ok})
        after == IF from = 0 THEN win ELSE cs[from].arg
    IN  (start + drawn) % Cells(after, sz)

(* --------------------------- terminal.rs ------------------------------- *)

\* the variants the numchars match of clear() has an arm for
numcharsArms == {"Display128x64", "Display132x64", "Display128x32", "Display96x16"}

\* numchars with the capacity of the 128x64 panel halved
numchars_half(display_size) ==
    CASE display_size = "Display128x64" -> 64
      [] display_size = "Display132x64" -> 64
      [] display_size = "Display128x32" -> 64
      [] display_size = "Display96x16"  -> 24

numchars(display_size) ==
    CASE display_size = "Display128x64" -> 128
      [] display_size = "Display132x64" -> 64
      [] display_size = "Display128x32" -> 64
      [] display_size = "Display96x16"  -> 24

\* the window origin of a clear that starts at the top left corner
clearOrigin_zero == <<0, 0>>

\* the origin clear() resets the window to
clearOrigin == <<6, 32>>

\* the blank glyph clear() streams, [0; 8]
blank == <<0, 0, 0, 0, 0, 0, 0, 0>>

\* Result<(), ()> of a handler that propagates every failure with `?`
Propagate(cs) == IF \A i \in 1..Len(cs) : cs[i].ok THEN "Ok" ELSE "Err"

\* clear() that ignores the result of a draw and streams all N blanks
clear_calls_nostop(display_size, fail) ==
    LET n     == numchars(display_size)
        dims  == dimensions(display_size)
        cells == (dims[1] \div 8) * (dims[2] \div 8)
        last  == IF fail = 0 THEN 0 ELSE n
    IN  <<Call("set_draw_area", <<clearOrigin, dims>>, fail # 0, -1)>>
        \o [k \in 1..last |->
              Call("draw", blank, k # fail,
                   (IF k > fail THEN k - 2 ELSE k - 1) % cells)]

\* The calls of clear().  fail = 0: set_draw_area fails; fail = k in 1..N:
\* the k-th draw fails; fail = N+1: nothing fails.
clear_calls(display_size, fail) ==
    LET n     == numchars(display_size)
        dims  == dimensions(display_size)
        cells == (dims[1] \div 8) * (dims[2] \div 8)
        last  == IF fail = 0 THEN 0 ELSE IF fail <= n THEN fail ELSE n
    IN  <<Call("set_draw_area", <<clearOrigin, dims>>, fail # 0, -1)>>
        \o [k \in 1..last |-> Call("draw", blank, k # fail, (k - 1) % cells)]

clear ==
    /\ ops < MaxOps
    /\ ops' = ops + 1
    /\ lastOp' = "clear"
    /\ lastArg' = <<>>
    /\ events' = <<>>
    /\ bitmap' = <<>>
    /\ IF size \in numcharsArms
       THEN \E fail \in 0..(numchars(size) + 1) :
              /\ calls' = clear_calls(size, fail)
              /\ result' = Propagate(calls')
       ELSE \* the match has no arm for this variant
            /\ calls' = <<>>
            /\ result' = "Undefined"
    /\ window' = WindowAfter(window, calls')
    /\ cursor' = CursorAfter(window, cursor, calls', size)
    /\ UNCHANGED size

\* reset() with the two delays exchanged
reset_events_swapped ==
    << [ev |-> "set_high", ms |-> 0],
       [ev |-> "delay_ms", ms |-> 10],
       [ev |-> "set_low",  ms |-> 0],
       [ev |-> "delay_ms", ms |-> 1],
       [ev |-> "set_high", ms |-> 0] >>

\* the pin and delay events of reset(), in order
reset_events ==
    << [ev |-> "set_high", ms |-> 0],
       [ev |-> "delay_ms", ms |-> 1],
       [ev |-> "set_low",  ms |-> 0],
       [ev |-> "delay_ms", ms |-> 10],
       [ev |-> "set_high", ms |-> 0] >>

reset ==
    /\ ops < MaxOps
    /\ ops' = ops + 1
    /\ lastOp' = "reset"
    /\ lastArg' = <<>>
    /\ calls' = <<>>
    /\ events' = reset_events
    /\ result' = "Ok"
    /\ bitmap' = <<>>
    /\ UNCHANGED <<size, window, cursor>>

\* a flush that streams one blank glyph
flush_calls_draw == <<Call("draw", blank, TRUE, 0)>>

\* the calls of flush(): none
flush_calls == <<>>

flush ==
    /\ ops < MaxOps
    /\ ops' = ops + 1
    /\ lastOp' = "flush"
    /\ lastArg' = <<>>
    /\ calls' = flush_calls
    /\ events' = <<>>
    /\ result' = "Ok"
    /\ bitmap' = <<>>
    /\ window' = WindowAfter(window, calls')
    /\ cursor' = CursorAfter(window, cursor, calls', size)
    /\ UNCHANGED size

\* print_char that sends the columns of the glyph right to left
print_char_calls_mirrored(c, ok, cur) ==
    <<Call("draw", [i \in 1..8 |-> to_bitmap(c)[9 - i]], ok, cur)>>

\* the calls of print_char(c) when the transport answers ok, cursor at cur
print_char_calls(c, ok, cur) == <<Call("draw", to_bitmap(c), ok, cur)>>

print_char ==
    /\ ops < MaxOps
    /\ ops' = ops + 1
    /\ \E c \in PrintChars, ok \in BOOLEAN :
         /\ lastOp' = "print_char"
         /\ lastArg' = <<c>>
         /\ calls' = print_char_calls(c, ok, cursor)
         /\ result' = Propagate(calls')
    /\ events' = <<>>
    /\ bitmap' = <<>>
    /\ window' = WindowAfter(window, calls')
    /\ cursor' = CursorAfter(window, cursor, calls', size)
    /\ UNCHANGED size

\* init() that tries once more after a failure
init_calls_retry(ok) ==
    IF ok THEN <<Call("init_column_mode", <<>>, TRUE, -1)>>
    ELSE <<Call("init_column_mode", <<>>, FALSE, -1),
           Call("init_column_mode", <<>>, TRUE, -1)>>

\* the calls of init() when the transport answers ok
init_calls(ok) == <<Call("init_column_mode", <<>>, ok, -1)>>

init ==
    /\ ops < MaxOps
    /\ ops' = ops + 1
    /\ \E ok \in BOOLEAN :
         /\ lastOp' = "init"
         /\ lastArg' = <<>>
         /\ calls' = init_calls(ok)
         /\ result' = Propagate(calls')
    /\ events' = <<>>
    /\ bitmap' = <<>>
    /\ window' = WindowAfter(window, calls')
    /\ cursor' = CursorAfter(window, cursor, calls', size)
    /\ UNCHANGED size

\* the calls of set_rotation(rot) when the transport answers ok
set_rotation_calls(rot, ok) == <<Call("set_rotation", <<rot>>, ok, -1)>>

set_rotation ==
    /\ ops < MaxOps
    /\ ops' = ops + 1
    /\ \E rot \in DisplayRotation, ok \in BOOLEAN :
         /\ lastOp' = "set_rotation"
         /\ lastArg' = <<rot>>
         /\ calls' = set_rotation_calls(rot, ok)
         /\ result' = Propagate(calls')
    /\ events' = <<>>
    /\ bitmap' = <<>>
    /\ window' = WindowAfter(window, calls')
    /\ cursor' = CursorAfter(window, cursor, calls', size)
    /\ UNCHANGED size

\* write_str that stops at the first failed print_char
RECURSIVE write_str_calls_failfast(_, _, _, _, _)
write_str_calls_failfast(s, oks, i, cur, cells) ==
    IF i > Len(s) THEN <<>>
    ELSE IF ~oks[i] THEN <<Call("draw", to_bitmap(s[i]), FALSE, cur)>>
    ELSE <<Call("draw", to_bitmap(s[i]), TRUE, cur)>>
         \o write_str_calls_failfast(s, oks, i + 1, (cur + 1) % cells, cells)

\* the calls of write_str(s): print_char of every character of s from the
\* i-th on, in order, the i-th with transport outcome oks[i]
RECURSIVE write_str_calls(_, _, _, _, _)
write_str_calls(s, oks, i, cur, cells) ==
    IF i > Len(s) THEN <<>>
    ELSE print_char_calls(s[i], oks[i], cur)
         \o write_str_calls(s, oks, i + 1,
                            IF oks[i] THEN (cur + 1) % cells ELSE cur, cells)

\* what write_str returns: the results of print_char are dropped
write_str_result(cs) == "Ok"

write_str ==
    /\ ops < MaxOps
    /\ ops' = ops + 1
    /\ \E s \in Strings :
         \E oks \in [1..Len(s) -> BOOLEAN] :
           /\ lastOp' = "write_str"
           /\ lastArg' = s
           /\ calls' = write_str_calls(s, oks, 1, cursor, Cells(window, size))
           /\ result' = write_str_result(calls')
    /\ events' = <<>>
    /\ bitmap' = <<>>
    /\ window' = WindowAfter(window, calls')
    /\ cursor' = CursorAfter(window, cursor, calls', size)
    /\ UNCHANGED size

\* a call of the trait function CharacterBitmap::to_bitmap
to_bitmap_call ==
    /\ ops < MaxOps
    /\ ops' = ops + 1
    /\ \E c \in Chars :
         /\ lastOp' = "to_bitmap"
         /\ lastArg' = <<c>>
         /\ bitmap' = to_bitmap(c)
    /\ calls' = <<>>
    /\ events' = <<>>
    /\ result' = "Ok"
    /\ UNCHANGED <<size, window, cursor>>

\* DisplayModeTrait::new: the renderer takes the handle, no I/O
Init ==
    /\ size \in DisplaySize
    /\ window = <<>>
    /\ cursor = 0
    /\ lastOp = "new"
    /\ lastArg = <<>>
    /\ calls = <<>>
    /\ events = <<>>
    /\ result = "Ok"
    /\ bitmap = <<>>
    /\ ops = 0

Next ==
    \/ clear
    \/ reset
    \/ flush
    \/ print_char
    \/ init
    \/ set_rotation
    \/ write_str

Spec == Init /\ [][Next]_vars

\* the glyph table alone: every character of Chars is looked up
NextGlyph == to_bitmap_call

SpecGlyph == Init /\ [][NextGlyph]_vars

TypeOK ==
    /\ size \in DisplaySize
    /\ cursor \in 0..(Cells(window, size) - 1)
    /\ result \in {"Ok", "Err", "Undefined"}

(* ------------------------------ claims --------------------------------- *)

allOk == \A i \in 1..Len(calls) : calls[i].ok

\* C1: on Display128x64, Display128x32 and Display96x16 a clear() in which
\* no call fails issues one set_draw_area with origin (6,32) and the size of
\* dimensions(), then exactly 128, 64 and 24 draws of the all-zero 8-byte
\* payload, nothing else, and returns success.
C1_ClearStreamsBlanks ==
    (lastOp = "clear" /\ size \in {"Display128x64", "Display128x32", "Display96x16"} /\ allOk) =>
        LET N == CASE size = "Display128x64" -> 128
                   [] size = "Display128x32" -> 64
                   [] size = "Display96x16"  -> 24
        IN  /\ Len(calls) = N + 1
            /\ calls[1].op = "set_draw_area"
            /\ calls[1].arg = <<<<6, 32>>, dimensions(size)>>
            /\ \A i \in 2..(N + 1) :
                  calls[i].op = "draw" /\ calls[i].arg = <<0, 0, 0, 0, 0, 0, 0, 0>>
            /\ result = "Ok"

C1_Witness ==
    /\ lastOp = "clear" /\ size = "Display128x64" /\ allOk
    /\ Len(calls) = 129 /\ result = "Ok"

\* C2: clear() is fail-fast: a call that fails is the last call clear()
\* makes and clear() returns the failure; when set_draw_area fails no draw
\* is issued; the blanks streamed before the failure stay streamed, none is
\* repeated.
C2_ClearFailFast ==
    (lastOp = "clear" /\ size \in numcharsArms) =>
        /\ Len(calls) >= 1 /\ Len(calls) <= numchars(size) + 1
        /\ calls[1].op = "set_draw_area"
        /\ (~calls[1].ok => Len(calls) = 1)
        /\ \A i \in 1..Len(calls) :
              /\ i > 1 => calls[i].op = "draw"
              /\ ~calls[i].ok => (i = Len(calls) /\ result = "Err")
              /\ i < Len(calls) => calls[i].ok

C2_Witness ==
    /\ lastOp = "clear" /\ Len(calls) = 4
    /\ calls[3].ok /\ ~calls[4].ok /\ result = "Err"

\* C3: write_str(s) issues one draw per character of s, in the order of s,
\* each with the glyph of its character, whatever draws fail, and returns
\* success.
C3_WriteStrBestEffort ==
    lastOp = "write_str" =>
        /\ Len(calls) = Len(lastArg)
        /\ \A i \in 1..Len(lastArg) :
              calls[i].op = "draw" /\ calls[i].arg = to_bitmap(lastArg[i])
        /\ result = "Ok"

C3_Witness ==
    /\ lastOp = "write_str" /\ lastArg = <<97, 98>>
    /\ Len(calls) = 2 /\ ~calls[1].ok
    /\ calls[2].arg = <<127, 72, 68, 68, 56, 0, 0, 0>>

\* C4: print_char(c) issues exactly one call, a draw of the 8 bytes of
\* to_bitmap(c) in order ('5' gives 27 67 45 45 45 7D 38 00 hex), and returns
\* success exactly when that draw succeeds.
C4_PrintCharForwardsGlyph ==
    lastOp = "print_char" =>
        /\ Len(calls) = 1
        /\ calls[1].op = "draw"
        /\ calls[1].arg = to_bitmap(lastArg[1])
        /\ (lastArg[1] = 53 => calls[1].arg = <<39, 103, 69, 69, 69, 125, 56, 0>>)
        /\ result = (IF calls[1].ok THEN "Ok" ELSE "Err")

C4_Witness ==
    /\ lastOp = "print_char" /\ lastArg = <<53>>
    /\ calls[1].arg = <<39, 103, 69, 69, 69, 125, 56, 0>> /\ result = "Ok"

\* C5: the capacity mapping of clear() has an arm for every declared variant
\* and for no other, so clear() finds a capacity for the variant get_size()
\* returns.
C5_CapacityMappingExhaustive ==
    /\ numcharsArms \subseteq DisplaySize
    /\ size \in numcharsArms
    /\ (lastOp = "clear" => result # "Undefined")

\* C6: flush() issues no collaborator call, leaves the addressing window and
\* the cursor as they were, and returns success, whatever happened before.
C6_FlushNoOp ==
    [][(lastOp' = "flush" /\ ops' # ops) =>
          /\ calls' = <<>>
          /\ window' = window
          /\ cursor' = cursor
          /\ result' = "Ok"]_vars

C6_Witness ==
    lastOp = "flush" /\ cursor > 0 /\ result = "Ok" /\ calls = <<>>

\* C7: to_bitmap returns 8 bytes for every character, the all-zero bitmap
\* for every character outside '!'..'}' (space, '~', controls, non-ASCII),
\* and the literal of the table inside it ('A' gives 7E 11 11 11 7E 00 00 00
\* hex).
C7_GlyphTotality ==
    lastOp = "to_bitmap" =>
        /\ Len(bitmap) = 8
        /\ \A i \in 1..8 : bitmap[i] \in 0..255
        /\ (lastArg[1] \notin 33..125 => bitmap = <<0, 0, 0, 0, 0, 0, 0, 0>>)
        /\ (lastArg[1] = 65 => bitmap = <<126, 17, 17, 17, 126, 0, 0, 0>>)

C7_Witness ==
    /\ lastOp = "to_bitmap" /\ lastArg = <<126>>
    /\ bitmap = <<0, 0, 0, 0, 0, 0, 0, 0>>

\* C8: init() issues exactly one init_column_mode call and set_rotation(r)
\* exactly one set_rotation call carrying r; each returns success exactly
\* when its call succeeds, and nothing follows a failure.
C8_PassThrough ==
    /\ lastOp = "init" =>
          /\ Len(calls) = 1
          /\ calls[1].op = "init_column_mode"
          /\ result = (IF calls[1].ok THEN "Ok" ELSE "Err")
    /\ lastOp = "set_rotation" =>
          /\ Len(calls) = 1
          /\ calls[1].op = "set_rotation"
          /\ calls[1].arg = lastArg
          /\ result = (IF calls[1].ok THEN "Ok" ELSE "Err")

C8_Witness ==
    /\ lastOp = "init" /\ Len(calls) = 1 /\ ~calls[1].ok /\ result = "Err"

\* C9: reset performs pin high, delay 1, pin low, delay 10, pin high, in
\* that order and nothing else: the pin is low for at least 10 units, high
\* at the end, and no call reaches the addressing-window collaborator.
C9_ResetSequence ==
    lastOp = "reset" =>
        /\ calls = <<>>
        /\ Len(events) = 5
        /\ events[1] = [ev |-> "set_high", ms |-> 0]
        /\ events[2] = [ev |-> "delay_ms", ms |-> 1]
        /\ events[3].ev = "set_low"
        /\ events[4].ev = "delay_ms" /\ events[4].ms >= 10 /\ events[4].ms = 10
        /\ events[5].ev = "set_high"

C9_Witness ==
    lastOp = "reset" /\ Len(events) = 5 /\ events[4].ms = 10

\* C10: after a successful clear() the capacity N is the number of 8x8 cells
\* of the window clear() set, the N blanks went to every cell exactly once,
\* the cursor is back on the window origin, and a print_char that follows
\* lands in the first cell.
C10_ClearLeavesCursorAtOrigin ==
    /\ [](lastOp = "clear" /\ result = "Ok" =>
            /\ window = <<<<6, 32>>, dimensions(size)>>
            /\ numchars(size) = Cells(window, size)
            /\ numchars(size) = (dimensions(size)[1] \div 8) * (dimensions(size)[2] \div 8)
            /\ \A cell \in 0..(Cells(window, size) - 1) :
                  Cardinality({i \in 1..Len(calls) :
                                 calls[i].op = "draw" /\ calls[i].at = cell}) = 1
            /\ cursor = 0)
    /\ [][(lastOp = "clear" /\ result = "Ok" /\ lastOp' = "print_char") =>
             calls'[1].at = 0]_vars

C10_Witness ==
    /\ lastOp = "clear" /\ result = "Ok" /\ size = "Display96x16"
    /\ Len(calls) = 25 /\ calls[25].at = 23 /\ cursor = 0

====
